---------------------------- MODULE Spec2Model ----------------------------
(***************************************************************************)
(* Model of the stepless event-driven simulator (package stepless):        *)
(* the CollisionHeap with lazy invalidation, the Timeline driver, the      *)
(* Ball trajectory algebra and the universe-bound views.                   *)
(*                                                                         *)
(* Scalars (numpy float64) are modelled as extended rationals <<n, d>>:    *)
(* d > 0 is the fraction n/d in lowest terms, <<1,0>> is +inf, <<-1,0>>    *)
(* is -inf and <<0,0>> is NaN.  Vectors are modelled by their x component: *)
(* all bodies move on the x axis, which every operation of the package     *)
(* preserves.  A vector-valued field or argument is either the shared      *)
(* module-level array vec_zero (alias = TRUE) or an array of its own.      *)
(***************************************************************************)
EXTENDS Integers, Sequences, FiniteSets, TLC

VARIABLES
    t,          \* Universe.t (t_now)
    contents,   \* Universe.contents : key -> Ball
    modified,   \* Universe.modified : set of keys
    future,     \* Timeline.future   : the CollisionHeap
    vec_zero,   \* stepless.types.vec_zero, the shared zero array
    views,      \* the view handed out for each key: its instance attributes
    hist        \* the last call made: operation, arguments, outcome

vars == <<t, contents, modified, future, vec_zero, views, hist>>

---------------------------------------------------------------------------
(* Bounds of the model                                                     *)

MaxTime == 2         \* pushed times range over 1..MaxTime and +inf
MaxHeap == 3         \* at most MaxHeap items are kept in the heap list

---------------------------------------------------------------------------
(* float64 arithmetic, as extended rationals                               *)

Abs(n) == IF n < 0 THEN -n ELSE n

Sign(n) == IF n < 0 THEN -1 ELSE IF n > 0 THEN 1 ELSE 0

RECURSIVE Gcd(_, _)
Gcd(a, b) == IF b = 0 THEN a ELSE Gcd(b, a % b)

Norm(n, d) ==
    IF d = 0 THEN <<Sign(n), 0>>
    ELSE LET g == Gcd(Abs(n), Abs(d))
         IN  <<Sign(d) * (n \div g), Abs(d) \div g>>

Q(n) == <<n, 1>>
Inf == <<1, 0>>
NaN == <<0, 0>>

IsNaN(a) == a = NaN
IsInf(a) == a[2] = 0 /\ a[1] # 0
IsFinite(a) == a[2] # 0

QAdd(a, b) ==
    IF a[2] = 0 /\ b[2] = 0
    THEN (IF a = b THEN a ELSE NaN)
    ELSE Norm(a[1] * b[2] + b[1] * a[2], a[2] * b[2])

QNeg(a) == <<-a[1], a[2]>>
QSub(a, b) == QAdd(a, QNeg(b))
QMul(a, b) == Norm(a[1] * b[1], a[2] * b[2])
\* a / b on floats; a zero divisor is +0: x/0 is +-inf, 0/0 is NaN
QDiv(a, b) ==
    IF b = <<0, 1>> THEN <<Sign(a[1]), 0>>
    ELSE Norm(a[1] * b[2] * Sign(b[1]), a[2] * Abs(b[1]))

\* a < b on floats: false as soon as one side is NaN
QLt(a, b) ==
    /\ ~IsNaN(a) /\ ~IsNaN(b)
    /\ IF a[2] = 0 \/ b[2] = 0
       THEN (IF a[2] = 0 /\ b[2] = 0 THEN a[1] < b[1]
             ELSE IF a[2] = 0 THEN a[1] < 0 ELSE b[1] > 0)
       ELSE a[1] * b[2] < b[1] * a[2]

QGt(a, b) == QLt(b, a)
QLe(a, b) == ~IsNaN(a) /\ ~IsNaN(b) /\ ~QLt(b, a)

---------------------------------------------------------------------------
(* CollisionHeapKey, CollisionHeapItem                                     *)

\* the key holding k1 and k2 as they were passed
CollisionHeapKeyUnsorted(k1, k2) == <<k1, k2>>

\* sorted((k1, k2))
CollisionHeapKey(k1, k2) == IF k1 <= k2 THEN <<k1, k2>> ELSE <<k2, k1>>

\* what _pop returns when the heap list runs empty
None == [id |-> 0, key |-> <<0, 0>>, t |-> NaN, void |-> FALSE, pred |-> <<>>]

\* the comparison turned around
ItemLtReversed(a, b) == QLt(b.t, a.t)

\* dataclass(order=True): only t takes part in the comparison
ItemLt(a, b) == QLt(a.t, b.t)

\* Item objects are told apart by id.  Between calls the id of an item is
\* its place in the heap list (Renumber), so a new item takes the next one.
NewId(self) == Len(self._heap) + 1

---------------------------------------------------------------------------
(* heapq on a list (index i of the sequence is position i - 1 of the list) *)

RECURSIVE SiftDown(_, _, _, _)
SiftDown(heap, startpos, pos, newitem) ==
    IF pos > startpos /\ ItemLt(newitem, heap[pos \div 2])
    THEN SiftDown([heap EXCEPT ![pos] = heap[pos \div 2]], startpos, pos \div 2, newitem)
    ELSE [heap EXCEPT ![pos] = newitem]

heappush(heap, item) ==
    LET h == Append(heap, item)
    IN  SiftDown(h, 1, Len(h), item)

RECURSIVE SiftUpLoop(_, _, _)
SiftUpLoop(heap, pos, newitem) ==
    LET endpos == Len(heap)
        left == 2 * pos
        right == left + 1
        child == IF right <= endpos /\ ~ItemLt(heap[left], heap[right])
                 THEN right ELSE left
    IN  IF left <= endpos
        THEN SiftUpLoop([heap EXCEPT ![pos] = heap[child]], child, newitem)
        ELSE SiftDown(heap, 1, pos, newitem)

\* heappop of a non-empty list: <<the list afterwards, the item returned>>
heappop(heap) ==
    LET lastelt == heap[Len(heap)]
        rest == SubSeq(heap, 1, Len(heap) - 1)
    IN  IF rest # <<>>
        THEN <<SiftUpLoop(rest, 1, lastelt), heap[1]>>
        ELSE <<rest, lastelt>>

---------------------------------------------------------------------------
(* CollisionHeap                                                           *)

EmptyMap == [k \in {} |-> 0]

EmptyHeap == [_heap |-> <<>>, _map |-> EmptyMap, void_count |-> 0, entry_count |-> 0]

MapDel(m, key) == [k \in (DOMAIN m) \ {key} |-> m[k]]

MapSet(m, key, v) == [k \in (DOMAIN m) \cup {key} |-> IF k = key THEN v ELSE m[k]]

\* __contains__
HeapContains(self, key) == key \in DOMAIN self._map

\* __len__
HeapLen(self) == self.entry_count - self.void_count

\* self._map[item.key].void = True : the flag is set on the item object,
\* which is the one the heap list holds
SetVoid(heap, id) ==
    [i \in DOMAIN heap |-> IF heap[i].id = id THEN [heap[i] EXCEPT !.void = TRUE] ELSE heap[i]]

\* the old entry voided and not counted
PushVoidOldUncounted(self, item) ==
    IF HeapContains(self, item.key)
    THEN [self EXCEPT !._heap = SetVoid(self._heap, self._map[item.key]),
                      !._map = MapDel(self._map, item.key)]
    ELSE self

\* _push, lines 44-47: a recomputed time supersedes the old one
PushVoidOld(self, item) ==
    IF HeapContains(self, item.key)
    THEN [self EXCEPT !._heap = SetVoid(self._heap, self._map[item.key]),
                      !.void_count = self.void_count + 1,
                      !._map = MapDel(self._map, item.key)]
    ELSE self

\* every item stored, whatever its time
PushStoreAlways(self, item) ==
    [self EXCEPT !._map = MapSet(self._map, item.key, item.id),
                 !._heap = heappush(self._heap, item),
                 !.entry_count = self.entry_count + 1]

\* _push, lines 49-52: an infinite time is not stored
PushStore(self, item) ==
    IF IsFinite(item.t)
    THEN [self EXCEPT !._map = MapSet(self._map, item.key, item.id),
                      !._heap = heappush(self._heap, item),
                      !.entry_count = self.entry_count + 1]
    ELSE self

\* the same heap with every item object named by its place in the list
Renumber(self) ==
    [self EXCEPT
        !._heap = [i \in DOMAIN self._heap |-> [self._heap[i] EXCEPT !.id = i]],
        !._map = [k \in DOMAIN self._map |->
                    CHOOSE i \in DOMAIN self._heap : self._heap[i].id = self._map[k]]]

HeapPushItem(self, item) == Renumber(PushStore(PushVoidOld(self, item), item))

\* _pop: <<the heap afterwards, the item returned (None when it runs empty)>>
RECURSIVE HeapPopItem(_)
HeapPopItem(self) ==
    IF self._heap = <<>> THEN <<self, None>>
    ELSE LET hp == heappop(self._heap)
             item == hp[2]
             s1 == [self EXCEPT !._heap = hp[1], !.entry_count = self.entry_count - 1]
         IN  IF item.void
             THEN HeapPopItem([s1 EXCEPT !.void_count = s1.void_count - 1])
             ELSE <<Renumber([s1 EXCEPT !._map = MapDel(s1._map, item.key)]), item>>

\* next (peek): <<the heap afterwards, the time returned, the items the
\* calls of _pop returned to it (which it drops)>>
RECURSIVE HeapNextFrom(_, _)
HeapNextFrom(self, dropped) ==
    IF self._heap # <<>> /\ self._heap[1].void
    THEN LET p == HeapPopItem(self)
         IN  HeapNextFrom(p[1], IF p[2] = None THEN dropped ELSE dropped \cup {p[2]})
    ELSE <<self, IF self._heap # <<>> THEN self._heap[1].t ELSE Inf, dropped>>

HeapNext(self) == HeapNextFrom(self, {})

\* the live entries of a heap: the (pair, time) of the items that are not void
Live(self) ==
    {<<self._heap[i].key, self._heap[i].t>> : i \in {j \in DOMAIN self._heap : ~self._heap[j].void}}

---------------------------------------------------------------------------
(* The heap on its own: calls of _push, next and pop with arbitrary times  *)

\* the keys (UUIDs) of three bodies, in their sort order
Keys == {1, 2, 3}

PushTimes == {Q(n) : n \in 1..MaxTime} \cup {Inf}

NoSup == [key |-> <<0, 0>>, ta |-> NaN, tb |-> NaN, len |-> 0]

\* the record of a call: what was called, with what, what it returned and
\* the heap before and after it
NoCall ==
    [op |-> "none", key |-> <<0, 0>>, t |-> NaN, ret |-> None,
     pre |-> {}, post |-> {}, lenPre |-> 0, lenPost |-> 0,
     mapPre |-> EmptyMap, mapPost |-> EmptyMap, dropped |-> {},
     floor |-> NaN, sup |-> NoSup]

\* floor: the time the previous pop returned, when no push came in between
\* sup: set when the last two calls pushed the same pair with finite times,
\*      the first of them onto a heap with no live entry of another pair;
\*      a peek that follows keeps it
Call(op, key, time, ret, before, after, dropped) ==
    [op |-> op, key |-> key, t |-> time, ret |-> ret,
     pre |-> Live(before), post |-> Live(after),
     lenPre |-> HeapLen(before), lenPost |-> HeapLen(after),
     mapPre |-> before._map, mapPost |-> after._map,
     dropped |-> dropped,
     floor |-> IF op = "push" THEN NaN
               ELSE IF hist.op = "pop" THEN hist.t
               ELSE hist.floor,
     sup |-> IF op = "push"
             THEN (IF /\ hist.op = "push" /\ hist.key = key
                      /\ IsFinite(hist.t) /\ IsFinite(time)
                      /\ \A e \in hist.pre : e[1] = key
                   THEN [key |-> key, ta |-> hist.t, tb |-> time, len |-> hist.lenPost]
                   ELSE NoSup)
             ELSE IF op = "peek" /\ hist.op = "push" THEN hist.sup
             ELSE NoSup]

InitHeap ==
    /\ t = Q(0)
    /\ contents = EmptyMap
    /\ modified = {}
    /\ future = EmptyHeap
    /\ vec_zero = Q(0)
    /\ views = EmptyMap
    /\ hist = NoCall

\* future._push(item) for an item of pair (k1, k2) whose predicted time is time
DoPush(k1, k2, time) ==
    LET key == CollisionHeapKey(k1, k2)
        item == [id |-> NewId(future), key |-> key, t |-> time, void |-> FALSE, pred |-> <<>>]
        after == HeapPushItem(future, item)
    IN  /\ k1 # k2
        /\ Len(after._heap) <= MaxHeap
        /\ future' = after
        /\ hist' = Call("push", key, time, None, future, after, {})
        /\ UNCHANGED <<t, contents, modified, vec_zero, views>>

\* future.next()
DoPeek ==
    LET r == HeapNext(future)
    IN  /\ future' = r[1]
        /\ hist' = Call("peek", <<0, 0>>, r[2], None, future, r[1], r[3])
        /\ UNCHANGED <<t, contents, modified, vec_zero, views>>

\* future.pop(); on a heap with no live entry _pop returns None and
\* item.t raises AttributeError
DoPop ==
    LET r == HeapPopItem(future)
    IN  /\ future' = r[1]
        /\ hist' = Call(IF r[2] = None THEN "pop_error" ELSE "pop",
                        r[2].key, r[2].t, r[2], future, r[1], {})
        /\ UNCHANGED <<t, contents, modified, vec_zero, views>>

NextHeap ==
    \/ \E k1 \in Keys, k2 \in Keys, time \in PushTimes : DoPush(k1, k2, time)
    \/ DoPeek
    \/ DoPop

SpecHeap == InitHeap /\ [][NextHeap]_vars

---------------------------------------------------------------------------
(* Claims on the heap                                                      *)

\* C1 (heap superseding): after push(k1,k2,t_a) then push(k1,k2,t_b) with
\* finite times on a heap holding no other pair, peek() returns t_b and
\* len() is what it was after the first push, also after the peek.
C1_Superseding ==
    (hist.op = "peek" /\ hist.sup # NoSup) =>
        /\ hist.t = hist.sup.tb
        /\ hist.lenPre = hist.sup.len
        /\ hist.lenPost = hist.sup.len

MinLive(live) ==
    IF live = {} THEN Inf
    ELSE (CHOOSE e \in live : \A f \in live : QLe(e[2], f[2]))[2]

\* C2 (peek is a query): peek returns the least time of the live entries,
\* +inf when there is none, and leaves the live entries, the pair->entry
\* map and len() as they were.
C2_PeekIsQuery ==
    hist.op = "peek" =>
        /\ hist.t = MinLive(hist.pre)
        /\ hist.post = hist.pre
        /\ hist.mapPost = hist.mapPre
        /\ hist.lenPost = hist.lenPre

\* C4 (heap ordering): pops with no push in between return non-decreasing
\* times, and every item a pop returns is live (not void).
C4_PopOrder ==
    hist.op = "pop" =>
        /\ ~hist.ret.void
        /\ <<hist.key, hist.t>> \in hist.pre
        /\ (~IsNaN(hist.floor) => QLe(hist.floor, hist.t))

\* a pop that follows a pop of a strictly earlier event, out of a heap that
\* also held a void item
C4_Witness ==
    /\ hist.op = "pop"
    /\ ~IsNaN(hist.floor)
    /\ QLt(hist.floor, hist.t)
    /\ hist.lenPre = 1
    /\ future.void_count > 0

---------------------------------------------------------------------------
(* Vectors and the shared zero array                                       *)

\* a reference to the module-level array vec_zero
VecZero == [alias |-> TRUE, val |-> Q(0)]

\* an array of its own, holding q
Own(q) == [alias |-> FALSE, val |-> q]

\* the contents of the array ref refers to, vec_zero holding z
Val(ref, z) == IF ref.alias THEN z ELSE ref.val

\* dot(a, b)
dot(a, b) == QMul(a, b)

---------------------------------------------------------------------------
(* Ball                                                                    *)

\* Ball(): every vector field defaults to the array vec_zero itself (the
\* class is created as by Python 3.10, which accepts an array as default)
DefaultBall == [x |-> VecZero, v |-> VecZero, a |-> VecZero,
                r |-> Q(1), m |-> Q(1), b |-> VecZero]

x_at(self, tt, z) ==
    QAdd(QMul(QAdd(QMul(QDiv(Val(self.a, z), Q(2)), tt), Val(self.v, z)), tt), Val(self.x, z))

v_at(self, tt, z) == QAdd(QMul(Val(self.a, z), tt), Val(self.v, z))

a_at(self, tt, z) == Val(self.a, z)

P_at(self, tt, z) == QMul(self.m, v_at(self, tt, z))

F_at(self, tt, z) == QMul(self.m, a_at(self, tt, z))

\* apply_impulse with new_v and new_x not shifted back from tt to time 0
apply_impulse_unshifted(self, tt, dx, dv, da, dP, dF, z) ==
    [ball |-> [self EXCEPT !.a = Own(QAdd(Val(self.a, z), Val(da, z))),
                           !.v = Own(QAdd(Val(self.v, z), Val(dv, z))),
                           !.x = Own(QAdd(Val(self.x, z), Val(dx, z)))],
     z |-> z]

\* apply_impulse: [ball |-> the ball returned, z |-> vec_zero afterwards].
\* da += dF / self.m and dv += dP / self.m add in place, into vec_zero
\* itself when da or dv is the default; new_a, new_v, new_x are new arrays.
apply_impulse(self, tt, dx, dv, da, dP, dF, z) ==
    LET z1 == IF da.alias THEN QAdd(z, QDiv(Val(dF, z), self.m)) ELSE z
        da1 == IF da.alias THEN da ELSE Own(QAdd(da.val, QDiv(Val(dF, z), self.m)))
        z2 == IF dv.alias THEN QAdd(z1, QDiv(Val(dP, z1), self.m)) ELSE z1
        dv1 == IF dv.alias THEN dv ELSE Own(QAdd(dv.val, QDiv(Val(dP, z1), self.m)))
        DA == Val(da1, z2)
        DV == Val(dv1, z2)
        new_a == QAdd(Val(self.a, z2), DA)
        new_v == QAdd(QSub(Val(self.v, z2), QMul(DA, tt)), DV)
        new_x == QAdd(QAdd(Val(self.x, z2), QMul(QSub(QMul(QDiv(DA, Q(2)), tt), DV), tt)),
                      Val(dx, z2))
    IN  [ball |-> [self EXCEPT !.a = Own(new_a), !.v = Own(new_v), !.x = Own(new_x)],
         z |-> z2]

\* an argument left at None, and one that is supplied
NoArg == <<>>
Arg(q) == <<q>>

\* apply_state: args.x, .v, .a, .P, .F are each NoArg or Arg(value)
apply_state(self, tt, args, z) ==
    LET dx == IF args.x = NoArg THEN VecZero ELSE Own(QSub(x_at(self, tt, z), args.x[1]))
        dv == IF args.v = NoArg THEN VecZero ELSE Own(QSub(v_at(self, tt, z), args.v[1]))
        da == IF args.a = NoArg THEN VecZero ELSE Own(QSub(a_at(self, tt, z), args.a[1]))
        dP == IF args.P = NoArg THEN VecZero ELSE Own(QSub(P_at(self, tt, z), args.P[1]))
        dF == IF args.F = NoArg THEN VecZero ELSE Own(QSub(F_at(self, tt, z), args.F[1]))
    IN  apply_impulse(self, tt, dx, dv, da, dP, dF, z)

NoArgs == [x |-> NoArg, v |-> NoArg, a |-> NoArg, P |-> NoArg, F |-> NoArg]

\* the keyword arguments {var: value}
OneArg(var, value) == [NoArgs EXCEPT ![var] = Arg(value)]

---------------------------------------------------------------------------
(* One Ball on its own: calls of apply_state                               *)

MaxCalls == 2        \* calls made on the ball

StateVars == {"x", "v", "a", "P", "F"}

BallInputs ==
    {[DefaultBall EXCEPT !.x = bx, !.v = bv, !.a = ba, !.m = bm] :
        bx \in {VecZero, Own(Q(1))}, bv \in {VecZero, Own(Q(1))},
        ba \in {VecZero, Own(Q(2))}, bm \in {Q(1), Q(2)}}

BallTimes == {Q(0), Q(1)}

BallValues == {Q(0), Q(2)}

\* the ball is kept in contents under key 1
TheBall == contents[1]

InitBall ==
    /\ t = Q(0)
    /\ contents \in {[k \in {1} |-> ball] : ball \in BallInputs}
    /\ modified = {}
    /\ future = EmptyHeap
    /\ vec_zero = Q(0)
    /\ views = EmptyMap
    /\ hist = [op |-> "none", var |-> "x", value |-> NaN, t |-> NaN,
               ball |-> DefaultBall, z |-> Q(0), n |-> 0]

\* ball = ball.apply_state(t=tt, **{var: value})
DoApplyState(tt, var, value) ==
    LET r == apply_state(TheBall, tt, OneArg(var, value), vec_zero)
    IN  /\ hist.n < MaxCalls
        /\ contents' = [contents EXCEPT ![1] = r.ball]
        /\ vec_zero' = r.z
        /\ hist' = [op |-> "apply_state", var |-> var, value |-> value, t |-> tt,
                    ball |-> TheBall, z |-> vec_zero, n |-> hist.n + 1]
        /\ UNCHANGED <<t, modified, future, views>>

NextBall ==
    \E tt \in BallTimes, var \in StateVars, value \in BallValues : DoApplyState(tt, var, value)

SpecBall == InitBall /\ [][NextBall]_vars

\* the value of state variable var of ball at tt, vec_zero holding z
ReadAt(ball, var, tt, z) ==
    CASE var = "x" -> x_at(ball, tt, z)
      [] var = "v" -> v_at(ball, tt, z)
      [] var = "a" -> a_at(ball, tt, z)
      [] var = "P" -> P_at(ball, tt, z)
      [] var = "F" -> F_at(ball, tt, z)

\* the state variables a write of var is not about (P goes with v, F with a)
Others(var) ==
    CASE var = "x" -> {"v", "a"}
      [] var \in {"v", "P"} -> {"x", "a"}
      [] var \in {"a", "F"} -> {"x", "v"}

\* C10 (apply_state drives the state to the supplied value): after
\* B' = B.apply_state(t, var=X), reading var of B' at t gives X, and the
\* state variables that were not supplied read at t what they read before.
C10_ApplyStateDrives ==
    hist.op = "apply_state" =>
        /\ ReadAt(TheBall, hist.var, hist.t, vec_zero) = hist.value
        /\ \A o \in Others(hist.var) :
              ReadAt(TheBall, o, hist.t, vec_zero) = ReadAt(hist.ball, o, hist.t, hist.z)

---------------------------------------------------------------------------
(* CollisionImpulse and collision resolution                               *)

QAbs(a) == <<Abs(a[1]), a[2]>>

\* Ball.get_collision_impulse: the impulse and its arrays are new
get_collision_impulse(self, other, tt, z) ==
    LET x == QSub(x_at(self, tt, z), x_at(other, tt, z))
        v == QSub(v_at(self, tt, z), v_at(other, tt, z))
        r == QAdd(self.r, other.r)
        dx == QMul(x, QSub(Q(1), QDiv(r, QAbs(x))))
        dv == QMul(QDiv(dot(v, x), dot(x, x)), x)
    IN  [t |-> tt, dx |-> Own(dx), dv |-> Own(dv)]

\* with_restitution scaling dv by e
with_restitution_e_only(self, e, z) == [self EXCEPT !.dv = Own(QMul(Val(self.dv, z), e))]

with_restitution(self, e, z) == [self EXCEPT !.dv = Own(QMul(Val(self.dv, z), QAdd(Q(1), e)))]

\* -self
ImpulseNeg(self, z) ==
    [self EXCEPT !.dx = Own(QNeg(Val(self.dx, z))), !.dv = Own(QNeg(Val(self.dv, z)))]

\* split without the branches for one infinite mass
split_general_only(self, m1, m2, z) ==
    LET denom == QAdd(m1, m2)
    IN  <<[self EXCEPT !.dx = Own(QMul(Val(self.dx, z), QDiv(QNeg(m2), denom))),
                       !.dv = Own(QMul(Val(self.dv, z), QDiv(QNeg(m2), denom)))],
          [self EXCEPT !.dx = Own(QMul(Val(self.dx, z), QDiv(m1, denom))),
                       !.dv = Own(QMul(Val(self.dv, z), QDiv(m1, denom)))]>>

\* split with the branch for two infinite masses giving zero impulses
split_masking(self, m1, m2, z) ==
    IF IsInf(m1) /\ IsInf(m2)
    THEN <<[self EXCEPT !.dx = VecZero, !.dv = VecZero],
           [self EXCEPT !.dx = VecZero, !.dv = VecZero]>>
    ELSE split_general_only(self, m1, m2, z)

\* split with each body weighted by its own mass
split_by_own_mass(self, m1, m2, z) ==
    LET denom == QAdd(m1, m2)
    IN  <<[self EXCEPT !.dx = Own(QMul(Val(self.dx, z), QDiv(QNeg(m1), denom))),
                       !.dv = Own(QMul(Val(self.dv, z), QDiv(QNeg(m1), denom)))],
          [self EXCEPT !.dx = Own(QMul(Val(self.dx, z), QDiv(m2, denom))),
                       !.dv = Own(QMul(Val(self.dv, z), QDiv(m2, denom)))]>>

\* split: <<the impulse of the first body, the impulse of the second>>
split(self, m1, m2, z) ==
    IF IsInf(m1) /\ ~IsInf(m2)
    THEN <<[self EXCEPT !.dx = VecZero, !.dv = VecZero], self>>
    ELSE IF ~IsInf(m1) /\ IsInf(m2)
    THEN <<ImpulseNeg(self, z), [self EXCEPT !.dx = VecZero, !.dv = VecZero]>>
    ELSE LET denom == QAdd(m1, m2)
             f1 == QDiv(QNeg(m2), denom)
             f2 == QDiv(m1, denom)
         IN  <<[self EXCEPT !.dx = Own(QMul(Val(self.dx, z), f1)),
                            !.dv = Own(QMul(Val(self.dv, z), f1))],
               [self EXCEPT !.dx = Own(QMul(Val(self.dx, z), f2)),
                            !.dv = Own(QMul(Val(self.dv, z), f2))]>>

\* ball += impulse
iadd(self, impulse, z) ==
    apply_impulse(self, impulse.t, impulse.dx, impulse.dv, VecZero, VecZero, VecZero, z)

---------------------------------------------------------------------------
(* Collision times                                                         *)

RECURSIVE IsqrtFrom(_, _)
IsqrtFrom(n, k) == IF k * k >= n THEN k ELSE IsqrtFrom(n, k + 1)

IsSquare(n) == n >= 0 /\ IsqrtFrom(n, 0) * IsqrtFrom(n, 0) = n

\* a rational with a rational square root, and that root
QIsSquare(a) == IsFinite(a) /\ IsSquare(a[1]) /\ IsSquare(a[2])
QSqrt(a) == <<IsqrtFrom(a[1], 0), IsqrtFrom(a[2], 0)>>

\* compute_collision_times: the coefficients handed to np.poly1d
Coefficients(self, other, z) ==
    LET x == QSub(Val(self.x, z), Val(other.x, z))
        v == QSub(Val(self.v, z), Val(other.v, z))
        a == QSub(Val(self.a, z), Val(other.a, z))
        r == QAdd(self.r, other.r)
    IN  <<QDiv(dot(a, a), Q(4)),
          dot(v, a),
          QAdd(dot(x, a), dot(v, v)),
          QMul(dot(x, v), Q(2)),
          QSub(dot(x, x), QMul(r, r))>>

\* The roots are modelled where they are rational: the polynomial has
\* finite coefficients, degree at most 2 (no relative acceleration) and a
\* discriminant that is a square.
Discriminant(c) == QSub(QMul(c[4], c[4]), QMul(Q(4), QMul(c[3], c[5])))

Solvable(c) ==
    /\ \A i \in 1..5 : IsFinite(c[i])
    /\ c[1] = Q(0) /\ c[2] = Q(0)
    /\ c[3] # Q(0) => (QLt(Discriminant(c), Q(0)) \/ QIsSquare(Discriminant(c)))

\* np.poly1d(c).roots, the real ones: leading zeros are stripped, and a
\* constant has no root
Roots(c) ==
    IF c[3] # Q(0)
    THEN (IF QLt(Discriminant(c), Q(0)) THEN {}
          ELSE LET s == QSqrt(Discriminant(c))
               IN  {QDiv(QSub(QNeg(c[4]), s), QMul(Q(2), c[3])),
                    QDiv(QAdd(QNeg(c[4]), s), QMul(Q(2), c[3]))})
    ELSE IF c[4] # Q(0) THEN {QDiv(QNeg(c[5]), c[4])}
    ELSE {}

\* the root that is compared with best (r < best holds of a root below it)
Better(r, best) == QLt(r, best)

\* the smallest real root, wherever it lies
next_time_any(roots, tt) ==
    LET ok == {r \in roots : ~IsNaN(r)}
    IN  IF ok = {} THEN Inf
        ELSE CHOOSE r \in ok : \A q \in ok : ~Better(q, r)

\* a root taken when it is at tt as well (r >= t)
next_time_after_or_at(roots, tt) ==
    LET ok == {r \in roots : ~QLt(r, tt) /\ ~IsNaN(r)}
    IN  IF ok = {} THEN Inf
        ELSE CHOOSE r \in ok : \A q \in ok : ~Better(q, r)

\* next_time_after: the smallest real root above tt, +inf without one
next_time_after(roots, tt) ==
    LET ok == {r \in roots : QGt(r, tt)}
    IN  IF ok = {} THEN Inf
        ELSE CHOOSE r \in ok : \A q \in ok : ~Better(q, r)

compute_next_collision_time(self, other, tt, z) ==
    next_time_after(Roots(Coefficients(self, other, z)), tt)

---------------------------------------------------------------------------
(* Timeline                                                                *)

MaxTarget == 2       \* advance_to is called with targets 0..MaxTarget
MaxEvents == 4       \* collisions resolved within one call of advance_to

\* The Timeline and vec_zero as one value, with what the call under way
\* has done so far:
\*   pushes    how often future.push was called for each pair
\*   selfPush  a push of a key with itself was made
\*   dropped   live entries next() took out of the heap and dropped
\*   resolved  the events do_next_collision popped and resolved
\*   back      some do_next_collision set t to a time before the t it found
\*   stale     after some do_next_collision a live entry did not fit its bodies
\*   cut       the call left what the model covers (Solvable, MaxEvents)
World ==
    [t |-> t, contents |-> contents, modified |-> modified, future |-> future,
     z |-> vec_zero, pushes |-> EmptyMap, selfPush |-> FALSE, dropped |-> {},
     resolved |-> {}, back |-> FALSE, stale |-> FALSE, cut |-> FALSE]

\* what a prediction is made from: the trajectory of a body
Trajectory(ball, z) == <<Val(ball.x, z), Val(ball.v, z), Val(ball.a, z), ball.r>>

Predicted(w, key) ==
    <<Trajectory(w.contents[key[1]], w.z), Trajectory(w.contents[key[2]], w.z)>>

\* a live entry whose bodies are not the ones it was predicted from
HasStale(w) ==
    \E i \in DOMAIN w.future._heap :
        /\ ~w.future._heap[i].void
        /\ w.future._heap[i].pred # Predicted(w, w.future._heap[i].key)

\* CollisionHeapItem.__post_init__
ItemTime(w, key) ==
    compute_next_collision_time(w.contents[key[1]], w.contents[key[2]], w.t, w.z)

\* CollisionHeap.push(timeline, k1, k2)
push(w, k1, k2) ==
    LET key == CollisionHeapKey(k1, k2)
        c == Coefficients(w.contents[key[1]], w.contents[key[2]], w.z)
        item == [id |-> NewId(w.future), key |-> key, t |-> ItemTime(w, key),
                 void |-> FALSE, pred |-> Predicted(w, key)]
    IN  IF ~Solvable(c) THEN [w EXCEPT !.cut = TRUE]
        ELSE [w EXCEPT !.future = HeapPushItem(w.future, item),
                       !.pushes = MapSet(w.pushes, key,
                                         IF key \in DOMAIN w.pushes THEN w.pushes[key] + 1 ELSE 1),
                       !.selfPush = w.selfPush \/ k1 = k2]

\* for k2 in order: self.future.push(self, k1, k2)
RECURSIVE PushEach(_, _, _)
PushEach(w, k1, order) ==
    IF order = <<>> \/ w.cut THEN w
    ELSE PushEach(push(w, k1, Head(order)), k1, Tail(order))

\* the orders in which a set may be iterated
RECURSIVE Orders(_)
Orders(S) ==
    IF S = {} THEN {<<>>}
    ELSE UNION {{<<k>> \o o : o \in Orders(S \ {k})} : k \in S}

\* unmodified left as it is
AddUnmodifiedNot(unmodified, k1) == unmodified

\* unmodified.add(k1)
AddUnmodified(unmodified, k1) == unmodified \cup {k1}

\* the loop of recompute_future: the worlds it may end in, one for each
\* order modified.pop() and the iteration of unmodified may take
RECURSIVE RecomputeLoop(_, _)
RecomputeLoop(w, unmodified) ==
    IF w.modified = {} \/ w.cut THEN {w}
    ELSE UNION {UNION {RecomputeLoop(PushEach([w EXCEPT !.modified = w.modified \ {k1}], k1, order),
                                     AddUnmodified(unmodified, k1))
                         : order \in Orders(unmodified)}
                  : k1 \in w.modified}

recompute_future(w) == RecomputeLoop(w, (DOMAIN w.contents) \ w.modified)

\* do_next_collision, of a heap that has a live entry
do_next_collision(w) ==
    LET p == HeapPopItem(w.future)
        k1 == p[2].key[1]
        k2 == p[2].key[2]
        b1 == w.contents[k1]
        b2 == w.contents[k2]
        i == get_collision_impulse(b1, b2, p[2].t, w.z)
        ie == with_restitution(i, dot(Val(b1.b, w.z), Val(b2.b, w.z)), w.z)
        halves == split(ie, b1.m, b2.m, w.z)
        r1 == iadd(b1, halves[1], w.z)
        r2 == iadd(b2, halves[2], r1.z)
        w1 == [w EXCEPT !.future = p[1],
                        !.contents = [w.contents EXCEPT ![k1] = r1.ball, ![k2] = r2.ball],
                        !.z = r2.z,
                        !.t = p[2].t,
                        !.modified = w.modified \cup {k1, k2},
                        !.resolved = w.resolved \cup {<<p[2].key, p[2].t>>},
                        !.back = w.back \/ QLt(p[2].t, w.t)]
    IN  {[w2 EXCEPT !.stale = w2.stale \/ HasStale(w2)] : w2 \in recompute_future(w1)}

\* the loop going on for an event at the target as well
LoopGoesOnAtTarget(target, nxt) == ~QLt(target, nxt)

\* while t > self.future.next()
LoopGoesOn(target, nxt) == QGt(target, nxt)

\* the loop of advance_to and the assignment after it
RECURSIVE AdvanceLoop(_, _, _)
AdvanceLoop(w, target, fuel) ==
    LET n == HeapNext(w.future)
        w1 == [w EXCEPT !.future = n[1],
                        !.dropped = w.dropped \cup {<<e.key, e.t>> : e \in n[3]}]
    IN  IF w.cut THEN {w}
        ELSE IF LoopGoesOn(target, n[2])
        THEN (IF fuel = 0 THEN {[w1 EXCEPT !.cut = TRUE]}
              ELSE UNION {AdvanceLoop(w2, target, fuel - 1) : w2 \in do_next_collision(w1)})
        ELSE {[w1 EXCEPT !.t = target]}

\* advance_to without the guard
NoGuard(target, allow, now) == FALSE

\* if not allow_time_travel and t < self.t
IsTimeTravel(target, allow, now) == ~allow /\ QLt(target, now)

\* advance_to past the guard, without the call of recompute_future
advance_to_unpredicted(w, target) == AdvanceLoop(w, target, MaxEvents)

\* advance_to past the guard
advance_to(w, target) ==
    UNION {AdvanceLoop(w1, target, MaxEvents) :
             w1 \in IF w.modified # {} THEN recompute_future(w) ELSE {w}}

---------------------------------------------------------------------------
(* A Timeline in use: add, writes through views, recompute_future,         *)
(* advance_to                                                              *)

\* the bodies handed to add: Ball(x=.., v=.., b=..), a left at its default
Body(bx, bv) == [DefaultBall EXCEPT !.x = Own(Q(bx)), !.v = Own(Q(bv)), !.b = Own(Q(1))]

AddInputs == {Body(0, 4), Body(3, 2), Body(8, 0)}

Targets == {Q(n) : n \in 0..MaxTarget}

\* the record of a call:
\*   target, allow  the arguments of advance_to
\*   err            "ok", or the exception the call raised
\*   stored         a write: contents holds the body the write computed
\*   marked         a write: the key of the view is in modified
\*   pushes, selfPush   recompute_future: as in World
\*   was            recompute_future, and advance_to to a target before t:
\*                  modified as the call found it
\*   travel         advance_to: the target was before t
\*   dropped, stale     advance_to: as in World
\*   collided       advance_to: some event was resolved
\*   late           advance_to: some event resolved was not before target
\*   back           advance_to: as in World
NoTimelineCall ==
    [op |-> "none", target |-> NaN, allow |-> FALSE, err |-> "ok",
     stored |-> FALSE, marked |-> FALSE, pushes |-> EmptyMap, selfPush |-> FALSE,
     was |-> {}, dropped |-> {}, collided |-> FALSE, late |-> FALSE, back |-> FALSE,
     travel |-> FALSE, stale |-> FALSE]

InitTimeline ==
    /\ t = Q(0)
    /\ contents = EmptyMap
    /\ modified = {}
    /\ future = EmptyHeap
    /\ vec_zero = Q(0)
    /\ views = EmptyMap
    /\ hist = NoTimelineCall

\* the Timeline and vec_zero as a call leaves them in world w
Becomes(w) ==
    /\ t' = w.t
    /\ contents' = w.contents
    /\ modified' = w.modified
    /\ future' = w.future
    /\ vec_zero' = w.z
    /\ views' = views

\* Universe.add(obj), mk_key() having returned key
UniverseAdd(w, key, obj) == [w EXCEPT !.contents = MapSet(w.contents, key, obj)]

\* Timeline.add(obj): super().add(obj), then self.modified.add(result.key)
TimelineAdd(w, key, obj) ==
    LET result == UniverseAdd(w, key, obj)
    IN  [result EXCEPT !.modified = result.modified \cup {key}]

\* timeline.add(obj): mk_key() (uuid4) is a key not in use; the view
\* returned is a new object
DoAdd(key, obj) ==
    LET w == TimelineAdd(World, key, obj)
    IN  /\ key \notin DOMAIN contents
        /\ contents' = w.contents
        /\ modified' = w.modified
        /\ views' = MapSet(views, key, EmptyMap)
        /\ hist' = [NoTimelineCall EXCEPT !.op = "add"]
        /\ UNCHANGED <<t, future, vec_zero>>

\* BallUniverseView: the setter of ball is bound to the name _ (lines
\* 61-64), so the property ball has no setter and an assignment to
\* view.ball raises AttributeError, storing nothing
SetViewBall(w, key, ball) == [w |-> w, err |-> "AttributeError", ball |-> ball]

\* view.var = value on the view of key.  modify_inplace returns None, so
\* the descriptors take the branch that assigns view.ball; the value
\* assigned is computed first.
ViewWrite(w, key, var, value) ==
    IF var \in StateVars
    THEN LET r == apply_state(w.contents[key], w.t, OneArg(var, value), w.z)
         IN  SetViewBall([w EXCEPT !.z = r.z], key, r.ball)
    ELSE SetViewBall(w, key, [w.contents[key] EXCEPT ![var] =
                                 IF var = "b" THEN Own(value) ELSE value])

\* writes are followed up to the first one that changes vec_zero
DoViewWrite(key, var, value) ==
    LET r == ViewWrite(World, key, var, value)
    IN  /\ key \in DOMAIN contents
        /\ vec_zero = Q(0)
        /\ Becomes(r.w)
        /\ hist' = [NoTimelineCall EXCEPT !.op = "write", !.err = r.err,
                                          !.stored = (r.w.contents[key] = r.ball),
                                          !.marked = (key \in r.w.modified)]

\* timeline.recompute_future()
DoRecomputeFuture ==
    \E w \in recompute_future(World) :
        /\ ~w.cut
        /\ Becomes(w)
        /\ hist' = [NoTimelineCall EXCEPT !.op = "recompute_future",
                                          !.pushes = w.pushes, !.selfPush = w.selfPush,
                                          !.was = modified]

\* timeline.advance_to(target, allow_time_travel=allow)
DoAdvanceTo(target, allow) ==
    IF IsTimeTravel(target, allow, t)
    THEN /\ hist' = [NoTimelineCall EXCEPT !.op = "advance_to", !.err = "TimeTravelError",
                                           !.target = target, !.allow = allow]
         /\ UNCHANGED <<t, contents, modified, future, vec_zero, views>>
    ELSE \E w \in advance_to(World, target) :
            /\ ~w.cut
            /\ Becomes(w)
            /\ hist' = [NoTimelineCall EXCEPT !.op = "advance_to",
                                              !.target = target, !.allow = allow,
                                              !.dropped = w.dropped,
                                              !.collided = (w.resolved # {}),
                                              !.late = (\E e \in w.resolved : ~QLt(e[2], target)),
                                              !.back = w.back,
                                              !.travel = QLt(target, t),
                                              !.was = IF QLt(target, t) THEN modified ELSE {},
                                              !.stale = w.stale]

\* Three bodies on a line, time moving forward: add, recompute_future and
\* advance_to.  (Writes through views store nothing, see SetViewBall; they
\* are followed in SpecViews.)
NextTimeline ==
    \/ \E key \in Keys, obj \in AddInputs : DoAdd(key, obj)
    \/ DoRecomputeFuture
    \/ \E target \in Targets : DoAdvanceTo(target, FALSE)

SpecTimeline == InitTimeline /\ [][NextTimeline]_vars

---------------------------------------------------------------------------
(* Two bodies, with writes through their views and with time travel        *)

ViewKeys == {1, 2}

\* Ball(x=.., v=.., b=..) as above, and one built with an array of its own
\* for a: Ball(x=.., v=.., a=np.zeros(2), b=..)
ViewInputs == {Body(0, 2), [Body(3, 1) EXCEPT !.a = Own(Q(0))]}

ViewVars == {"x", "v", "a", "P", "F", "r", "m", "b"}

WriteValues == {Q(3)}

NextViews ==
    \/ \E key \in ViewKeys, obj \in ViewInputs : DoAdd(key, obj)
    \/ \E key \in ViewKeys, var \in ViewVars, value \in WriteValues : DoViewWrite(key, var, value)
    \/ DoRecomputeFuture
    \/ \E target \in Targets, allow \in BOOLEAN : DoAdvanceTo(target, allow)

SpecViews == InitTimeline /\ [][NextViews]_vars

---------------------------------------------------------------------------
(* Claims about the Timeline                                               *)

\* the live entries of the heap
LiveEntries == {future._heap[i] : i \in {j \in DOMAIN future._heap : ~future._heap[j].void}}

\* C3 (no silent discard): a live event leaves the heap only by being
\* popped and resolved by do_next_collision or by being voided by a later
\* push of its pair; no call of advance_to takes a live entry out of the
\* heap and drops it.
C3_NoSilentDiscard == hist.dropped = {}

\* C5 (time-travel guard): advance_to(target) with target < t and
\* allow_time_travel false raises TimeTravelError, and leaves t, modified,
\* the heap, every body and vec_zero as they were.
C5_TimeTravelGuard ==
    [][(hist'.op = "advance_to" /\ ~hist'.allow /\ QLt(hist'.target, t)) =>
          /\ hist'.err = "TimeTravelError"
          /\ UNCHANGED <<t, contents, modified, future, vec_zero>>]_vars

\* the guard has fired with keys pending in modified and a live entry
C5_Witness ==
    /\ hist.op = "advance_to" /\ hist.err = "TimeTravelError"
    /\ ~hist.allow /\ QLt(hist.target, t)
    /\ modified # {}
    /\ LiveEntries # {}

\* C6 (advance_to postcondition): when advance_to(target) returns, t is
\* target, modified is empty, no live entry has a time below target, and
\* the events the call resolved were all before target (one at exactly
\* target is left pending).
C6_AdvancePost ==
    (hist.op = "advance_to" /\ hist.err = "ok") =>
        /\ t = hist.target
        /\ modified = {}
        /\ \A e \in LiveEntries : ~QLt(e.t, hist.target)
        /\ ~hist.late

\* advance_to has resolved a collision and left an event at exactly target
C6_Witness ==
    /\ hist.op = "advance_to" /\ hist.err = "ok"
    /\ hist.collided
    /\ t = hist.target
    /\ \E e \in LiveEntries : e.t = hist.target

\* C7 (recompute_future coverage): one call of recompute_future pushes
\* each pair of distinct keys with a key in modified exactly once, pushes
\* no pair of two unmodified keys and no key paired with itself, and leaves
\* modified empty.
C7_RecomputeCoverage ==
    hist.op = "recompute_future" =>
        /\ \A k1 \in DOMAIN contents, k2 \in DOMAIN contents :
              k1 < k2 =>
                 IF k1 \in hist.was \/ k2 \in hist.was
                 THEN <<k1, k2>> \in DOMAIN hist.pushes /\ hist.pushes[<<k1, k2>>] = 1
                 ELSE <<k1, k2>> \notin DOMAIN hist.pushes
        /\ \A key \in DOMAIN hist.pushes : key[1] # key[2]
        /\ ~hist.selfPush
        /\ modified = {}

\* a call that found one key of three modified: two pairs pushed, the
\* pair of the two unmodified keys not
C7_Witness ==
    /\ hist.op = "recompute_future"
    /\ Cardinality(DOMAIN contents) = 3
    /\ Cardinality(hist.was) = 1
    /\ Cardinality(DOMAIN hist.pushes) = 2
    /\ modified = {}


\* C8 (no stale live events): when advance_to returns, and after each
\* do_next_collision within it, every live entry was predicted from the
\* trajectories its two bodies have now.
C8_NoStaleLive ==
    (hist.op = "advance_to" /\ hist.err = "ok") => (~hist.stale /\ ~HasStale(World))

\* C9 (writes through a view): a write of x, v, a, P, F, r, m or b through
\* a BallUniverseView raises nothing, stores the updated body under the key
\* of the view and puts the key into modified.
C9_ViewWrite ==
    hist.op = "write" => (hist.err = "ok" /\ hist.stored /\ hist.marked)

---------------------------------------------------------------------------
(* A plain Universe and the views it hands out                             *)

\* Ball.U_at, K_at, E_at
U_at(self, tt, z) == QMul(QNeg(self.m), dot(a_at(self, tt, z), x_at(self, tt, z)))

K_at(self, tt, z) == QMul(QMul(<<1, 2>>, self.m), dot(v_at(self, tt, z), v_at(self, tt, z)))

E_at(self, tt, z) == QAdd(K_at(self, tt, z), U_at(self, tt, z))

EnergyVars == {"U", "K", "E"}

EnergyAt(ball, var, tt, z) ==
    CASE var = "U" -> U_at(ball, tt, z)
      [] var = "K" -> K_at(ball, tt, z)
      [] var = "E" -> E_at(ball, tt, z)

\* view.var = value for var in U, K, E: VarDescriptor defines __get__ only,
\* so the assignment is an ordinary one and lands in the instance
\* dictionary of the view
EnergyWrite(view, var, value) == [view |-> MapSet(view, var, value), err |-> "ok"]

\* view.var read for var in U, K, E: an instance attribute comes before a
\* descriptor without __set__; the descriptor itself looks up var_at on
\* the view, which has no such attribute
EnergyRead(view, var) ==
    IF var \in DOMAIN view
    THEN [value |-> view[var], err |-> "ok"]
    ELSE [value |-> NaN, err |-> "AttributeError"]

UniverseKeys == {1, 2}

EnergyValues == {Q(5)}

NoUniverseCall ==
    [op |-> "none", key |-> 0, var |-> "U", value |-> NaN, err |-> "ok",
     body |-> DefaultBall, before |-> EmptyMap]

InitUniverse ==
    /\ t = Q(0)
    /\ contents = EmptyMap
    /\ modified = {}
    /\ future = EmptyHeap
    /\ vec_zero = Q(0)
    /\ views = EmptyMap
    /\ hist = NoUniverseCall

\* view = universe.add(obj): mk_key() (uuid4) is a key not in use
DoUniverseAdd(key, obj) ==
    LET w == UniverseAdd(World, key, obj)
    IN  /\ key \notin DOMAIN contents
        /\ contents' = w.contents
        /\ modified' = w.modified
        /\ views' = MapSet(views, key, EmptyMap)
        /\ hist' = [NoUniverseCall EXCEPT !.op = "add", !.key = key, !.body = obj,
                                          !.before = contents]
        /\ UNCHANGED <<t, future, vec_zero>>

\* views[key].var = value, var one of U, K, E
DoEnergyWrite(key, var, value) ==
    LET r == EnergyWrite(views[key], var, value)
    IN  /\ key \in DOMAIN views
        /\ views' = [views EXCEPT ![key] = r.view]
        /\ hist' = [NoUniverseCall EXCEPT !.op = "write", !.key = key, !.var = var,
                                          !.value = value, !.err = r.err]
        /\ UNCHANGED <<t, contents, modified, future, vec_zero>>

\* views[key].var read, var one of U, K, E
DoEnergyRead(key, var) ==
    LET r == EnergyRead(views[key], var)
    IN  /\ key \in DOMAIN views
        /\ hist' = [NoUniverseCall EXCEPT !.op = "read", !.key = key, !.var = var,
                                          !.value = r.value, !.err = r.err]
        /\ UNCHANGED <<t, contents, modified, future, vec_zero, views>>

NextUniverse ==
    \/ \E key \in UniverseKeys, obj \in ViewInputs : DoUniverseAdd(key, obj)
    \/ \E key \in UniverseKeys, var \in EnergyVars, value \in EnergyValues :
          DoEnergyWrite(key, var, value)
    \/ \E key \in UniverseKeys, var \in EnergyVars : DoEnergyRead(key, var)

SpecUniverse == InitUniverse /\ [][NextUniverse]_vars

\* C11 (add): add(body) on a Universe stores the body under a key that was
\* not in contents before, puts the key into modified and leaves the body
\* of every other key as it was.
C11_Add ==
    hist.op = "add" =>
        /\ hist.key \notin DOMAIN hist.before
        /\ contents[hist.key] = hist.body
        /\ hist.key \in modified
        /\ \A k \in DOMAIN hist.before : contents[k] = hist.before[k]

\* C12 (U, K, E are read-only on a view): a write of view.U, view.K or
\* view.E is rejected, and a read of U, K or E gives U_at(t), K_at(t),
\* E_at(t) of the body under the key of the view, never a written value.
C12_EnergyReadOnly ==
    /\ hist.op = "write" => hist.err # "ok"
    /\ hist.op = "read" =>
          /\ hist.err = "ok"
          /\ hist.value = EnergyAt(contents[hist.key], hist.var, t, vec_zero)

---------------------------------------------------------------------------
(* One Ball on its own: calls of apply_impulse with dx, dv, da             *)

\* an immovable body among the balls
ImpulseInputs == BallInputs \cup {[DefaultBall EXCEPT !.x = Own(Q(1)), !.v = VecZero, !.m = Inf]}

ImpulseTimes == {Q(0), Q(1), Q(2)}

\* each delta is left at its default or supplied
DxInputs == {VecZero, Own(Q(1))}
DvInputs == {VecZero, Own(Q(2))}
DaInputs == {VecZero, Own(Q(-2))}

InitImpulse ==
    /\ t = Q(0)
    /\ contents \in {[k \in {1} |-> ball] : ball \in ImpulseInputs}
    /\ modified = {}
    /\ future = EmptyHeap
    /\ vec_zero = Q(0)
    /\ views = EmptyMap
    /\ hist = [op |-> "none", t |-> NaN, dx |-> VecZero, dv |-> VecZero, da |-> VecZero,
               ball |-> DefaultBall, z |-> Q(0), n |-> 0]

\* ball = ball.apply_impulse(tt, dx=dx, dv=dv, da=da)
DoApplyImpulse(tt, dx, dv, da) ==
    LET r == apply_impulse(TheBall, tt, dx, dv, da, VecZero, VecZero, vec_zero)
    IN  /\ hist.n < MaxCalls
        /\ contents' = [contents EXCEPT ![1] = r.ball]
        /\ vec_zero' = r.z
        /\ hist' = [op |-> "apply_impulse", t |-> tt, dx |-> dx, dv |-> dv, da |-> da,
                    ball |-> TheBall, z |-> vec_zero, n |-> hist.n + 1]
        /\ UNCHANGED <<t, modified, future, views>>

NextImpulse ==
    \E tt \in ImpulseTimes, dx \in DxInputs, dv \in DvInputs, da \in DaInputs :
        DoApplyImpulse(tt, dx, dv, da)

SpecImpulse == InitImpulse /\ [][NextImpulse]_vars

\* C13 (impulse isolation): B' = B.apply_impulse(t, dx, dv, da) reads
\* x'(t) = x(t) + dx, v'(t) = v(t) + dv and a' = a + da, a delta that is
\* not supplied being zero; so a component whose delta is zero reads at t
\* what it read before, whatever the other deltas are.
C13_ImpulseIsolation ==
    hist.op = "apply_impulse" =>
        /\ x_at(TheBall, hist.t, vec_zero) = QAdd(x_at(hist.ball, hist.t, hist.z), hist.dx.val)
        /\ v_at(TheBall, hist.t, vec_zero) = QAdd(v_at(hist.ball, hist.t, hist.z), hist.dv.val)
        /\ a_at(TheBall, hist.t, vec_zero) = QAdd(a_at(hist.ball, hist.t, hist.z), hist.da.val)

\* dv and da supplied at a time other than 0 and dx not: x(t) is as before
C13_Witness ==
    /\ hist.op = "apply_impulse"
    /\ hist.t = Q(2)
    /\ hist.dx = VecZero /\ hist.dv # VecZero /\ hist.da # VecZero
    /\ x_at(TheBall, hist.t, vec_zero) = x_at(hist.ball, hist.t, hist.z)
    /\ TheBall.x # hist.ball.x

---------------------------------------------------------------------------
(* Two Balls and the resolution of a collision between them                *)

\* the first body: to the right, at rest or moving left, in contact with
\* the second at time 0 or further away
FirstInputs ==
    {[DefaultBall EXCEPT !.x = Own(Q(bx)), !.v = Own(Q(bv)), !.a = ba, !.m = bm] :
        bx \in {1, 3}, bv \in {-1, 0}, ba \in {VecZero, Own(Q(1))}, bm \in {Q(1), Q(2), Inf}}

\* the second body: to the left, moving right
SecondInputs ==
    {[DefaultBall EXCEPT !.x = Own(Q(-1)), !.v = Own(Q(1)), !.m = bm] : bm \in {Q(1), Q(2), Inf}}

CollideTimes == {Q(0), Q(1)}

Restitutions == {Q(0), <<1, 2>>, Q(1)}

\* i1, i2 = b1.get_collision_impulse(b2, t).with_restitution(e).split(b1.m, b2.m);
\* b1 += i1; b2 += i2
Resolve(b1, b2, tt, e, z) ==
    LET i == get_collision_impulse(b1, b2, tt, z)
        ie == with_restitution(i, e, z)
        halves == split(ie, b1.m, b2.m, z)
        r1 == iadd(b1, halves[1], z)
        r2 == iadd(b2, halves[2], r1.z)
    IN  [i |-> ie, i1 |-> halves[1], i2 |-> halves[2], b1 |-> r1.ball, b2 |-> r2.ball,
         z |-> r2.z]

InitCollide ==
    /\ t = Q(0)
    /\ contents \in {[k \in {1, 2} |-> IF k = 1 THEN b1 ELSE b2] :
                        b1 \in FirstInputs, b2 \in SecondInputs}
    /\ modified = {}
    /\ future = EmptyHeap
    /\ vec_zero = Q(0)
    /\ views = EmptyMap
    /\ hist = [op |-> "none", t |-> NaN, e |-> NaN, b1 |-> DefaultBall, b2 |-> DefaultBall,
               z |-> Q(0), i |-> [t |-> NaN, dx |-> VecZero, dv |-> VecZero],
               i1 |-> [t |-> NaN, dx |-> VecZero, dv |-> VecZero],
               i2 |-> [t |-> NaN, dx |-> VecZero, dv |-> VecZero], n |-> 0]

\* the collision of the two bodies is resolved at time tt with restitution e
DoCollide(tt, e) ==
    LET r == Resolve(contents[1], contents[2], tt, e, vec_zero)
    IN  /\ hist.n < MaxCalls
        /\ contents' = [contents EXCEPT ![1] = r.b1, ![2] = r.b2]
        /\ vec_zero' = r.z
        /\ hist' = [op |-> "collide", t |-> tt, e |-> e, b1 |-> contents[1], b2 |-> contents[2],
                    z |-> vec_zero, i |-> r.i, i1 |-> r.i1, i2 |-> r.i2, n |-> hist.n + 1]
        /\ UNCHANGED <<t, modified, future, views>>

NextCollide == \E tt \in CollideTimes, e \in Restitutions : DoCollide(tt, e)

SpecCollide == InitCollide /\ [][NextCollide]_vars

\* the two bodies had finite state and finite masses and their centres were
\* apart when the collision was resolved
FiniteCase ==
    /\ hist.op = "collide"
    /\ IsFinite(hist.b1.m) /\ IsFinite(hist.b2.m)
    /\ \A b \in {hist.b1, hist.b2} :
          IsFinite(x_at(b, hist.t, hist.z)) /\ IsFinite(v_at(b, hist.t, hist.z))
    /\ x_at(hist.b1, hist.t, hist.z) # x_at(hist.b2, hist.t, hist.z)

Momentum(b1, b2, tt, z) ==
    QAdd(QMul(b1.m, v_at(b1, tt, z)), QMul(b2.m, v_at(b2, tt, z)))

Centroid(b1, b2, tt, z) ==
    QDiv(QAdd(QMul(b1.m, x_at(b1, tt, z)), QMul(b2.m, x_at(b2, tt, z))), QAdd(b1.m, b2.m))

Kinetic(b1, b2, tt, z) == QAdd(K_at(b1, tt, z), K_at(b2, tt, z))

\* C14 (momentum and centroid conservation): for finite positive masses and
\* any restitution, resolving the collision at t leaves m1*v1(t) + m2*v2(t)
\* and (m1*x1(t) + m2*x2(t)) / (m1 + m2) as they were, also when the
\* positional correction dx is not zero.
C14_Conservation ==
    FiniteCase =>
        /\ Momentum(contents[1], contents[2], hist.t, vec_zero)
             = Momentum(hist.b1, hist.b2, hist.t, hist.z)
        /\ Centroid(contents[1], contents[2], hist.t, vec_zero)
             = Centroid(hist.b1, hist.b2, hist.t, hist.z)

\* unequal masses, a positional correction and a change of velocity
C14_Witness ==
    /\ FiniteCase
    /\ hist.b1.m # hist.b2.m
    /\ Val(hist.i.dx, hist.z) # Q(0)
    /\ v_at(contents[1], hist.t, vec_zero) # v_at(hist.b1, hist.t, hist.z)
    /\ x_at(contents[1], hist.t, vec_zero) # x_at(hist.b1, hist.t, hist.z)

\* C15 (elastic energy conservation): for finite positive masses, equal or
\* not, and restitution 1 the kinetic energy (1/2)*m1*v1(t)^2 +
\* (1/2)*m2*v2(t)^2 is the same before and after the collision is resolved.
C15_ElasticEnergy ==
    (FiniteCase /\ hist.e = Q(1)) =>
        Kinetic(contents[1], contents[2], hist.t, vec_zero)
          = Kinetic(hist.b1, hist.b2, hist.t, hist.z)

\* unequal masses, and velocities that the collision has changed
C15_Witness ==
    /\ FiniteCase /\ hist.e = Q(1)
    /\ hist.b1.m # hist.b2.m
    /\ v_at(contents[1], hist.t, vec_zero) # v_at(hist.b1, hist.t, hist.z)
    /\ v_at(contents[2], hist.t, vec_zero) # v_at(hist.b2, hist.t, hist.z)

\* the displacement and the velocity change an impulse holds
Deltas(impulse, z) == <<Val(impulse.dx, z), Val(impulse.dv, z)>>

\* the two bodies had finite state and their centres were apart when the
\* collision was resolved
FiniteState ==
    /\ hist.op = "collide"
    /\ \A b \in {hist.b1, hist.b2} :
          IsFinite(x_at(b, hist.t, hist.z)) /\ IsFinite(v_at(b, hist.t, hist.z))
    /\ x_at(hist.b1, hist.t, hist.z) # x_at(hist.b2, hist.t, hist.z)

\* body k reads at the time of the collision what it read before
Unmoved(k, before) ==
    /\ x_at(contents[k], hist.t, vec_zero) = x_at(before, hist.t, hist.z)
    /\ v_at(contents[k], hist.t, vec_zero) = v_at(before, hist.t, hist.z)

\* C16 (immovable body): with exactly one infinite mass split gives the
\* infinite-mass body the zero impulse and the other body the whole impulse
\* (m1 = inf: I1 = 0, I2 = I; m2 = inf: I1 = -I, I2 = 0), and applying the
\* halves leaves position and velocity of the infinite-mass body at t as
\* they were.
C16_Immovable ==
    FiniteState =>
        /\ (IsInf(hist.b1.m) /\ IsFinite(hist.b2.m)) =>
              /\ Deltas(hist.i1, hist.z) = <<Q(0), Q(0)>>
              /\ Deltas(hist.i2, hist.z) = Deltas(hist.i, hist.z)
              /\ Unmoved(1, hist.b1)
        /\ (IsFinite(hist.b1.m) /\ IsInf(hist.b2.m)) =>
              /\ Deltas(hist.i1, hist.z) = Deltas(ImpulseNeg(hist.i, hist.z), hist.z)
              /\ Deltas(hist.i2, hist.z) = <<Q(0), Q(0)>>
              /\ Unmoved(2, hist.b2)

\* the first body immovable, the second turned back by the whole impulse
C16_Witness ==
    /\ FiniteState
    /\ IsInf(hist.b1.m) /\ IsFinite(hist.b2.m)
    /\ Val(hist.i.dv, hist.z) # Q(0)
    /\ Unmoved(1, hist.b1)
    /\ v_at(contents[2], hist.t, vec_zero) # v_at(hist.b2, hist.t, hist.z)

\* C17 (infinite versus infinite): with both masses infinite the dx and dv
\* of both impulses returned by split are NaN, and applying them makes
\* position and velocity of both bodies NaN; the resolution goes through
\* (no step of it raises).
C17_BothInfinite ==
    (hist.op = "collide" /\ IsInf(hist.b1.m) /\ IsInf(hist.b2.m)) =>
        /\ Deltas(hist.i1, hist.z) = <<NaN, NaN>>
        /\ Deltas(hist.i2, hist.z) = <<NaN, NaN>>
        /\ \A k \in {1, 2} :
              /\ IsNaN(x_at(contents[k], hist.t, vec_zero))
              /\ IsNaN(v_at(contents[k], hist.t, vec_zero))
              /\ IsNaN(Val(contents[k].x, vec_zero)) /\ IsNaN(Val(contents[k].v, vec_zero))

\* two infinite masses that were in finite state have been resolved
C17_Witness ==
    /\ FiniteState
    /\ IsInf(hist.b1.m) /\ IsInf(hist.b2.m)
    /\ IsNaN(Val(contents[1].v, vec_zero)) /\ IsNaN(Val(contents[2].x, vec_zero))

---------------------------------------------------------------------------
(* next_time_after on arrays of complex roots                              *)

MaxRoots == 3        \* roots in the array handed to next_time_after

\* an element of the array: its real part, and its imaginary part as
\* np.real_if_close sees it: "zero" (a real number), "close" (within the
\* tolerance of zero) or "far"
Complex(re, im) == [re |-> re, im |-> im]

\* np.real_if_close(r)
RealIfClose(r) == IF r.im = "close" THEN Complex(r.re, "zero") ELSE r

\* np.isrealobj(r)
IsRealObj(r) == r.im = "zero"

\* the elements of the array that pass np.isrealobj after np.real_if_close,
\* as real numbers
RealRoots(array) == {RealIfClose(r).re : r \in {c \in array : IsRealObj(RealIfClose(c))}}

RootInputs ==
    {Complex(Q(n), im) : n \in 0..3, im \in {"zero", "close", "far"}} \cup {Complex(NaN, "zero")}

RootArrays == {A \in SUBSET RootInputs : Cardinality(A) <= MaxRoots}

RootTimes == {Q(1), Q(2)}

InitRoots ==
    /\ t = Q(0)
    /\ contents = EmptyMap
    /\ modified = {}
    /\ future = EmptyHeap
    /\ vec_zero = Q(0)
    /\ views = EmptyMap
    /\ hist = [op |-> "none", roots |-> {}, t |-> NaN, ret |-> NaN]

\* ret = next_time_after(array, tt)
DoNextTimeAfter(array, tt) ==
    /\ hist' = [op |-> "next_time_after", roots |-> array, t |-> tt,
                ret |-> next_time_after(RealRoots(array), tt)]
    /\ UNCHANGED <<t, contents, modified, future, vec_zero, views>>

NextRoots == \E array \in RootArrays, tt \in RootTimes : DoNextTimeAfter(array, tt)

SpecRoots == InitRoots /\ [][NextRoots]_vars

\* the real parts of the elements that count as real (imaginary part zero
\* or within tolerance) and lie strictly above the time of the call
Qualifying ==
    {r.re : r \in {c \in hist.roots : c.im # "far" /\ QLt(hist.t, c.re)}}

\* C18 (next_time_after): the result is the smallest element of roots that
\* is real and strictly greater than t, and +inf when there is none; a root
\* equal to t is never returned: the result is strictly later than t.
C18_NextTimeAfter ==
    hist.op = "next_time_after" =>
        /\ Qualifying = {} => hist.ret = Inf
        /\ Qualifying # {} =>
              /\ hist.ret \in Qualifying
              /\ \A q \in Qualifying : QLe(hist.ret, q)
        /\ QLt(hist.t, hist.ret)

\* an array with a real root at t, a complex root above t, a real root
\* below t and one, within tolerance of real, above t, which is returned
C18_Witness ==
    /\ hist.op = "next_time_after"
    /\ hist.t = Q(1)
    /\ hist.roots = {Complex(Q(1), "zero"), Complex(Q(2), "far"), Complex(Q(3), "close")}
    /\ hist.ret = Q(3)

---------------------------------------------------------------------------
(* Claims on the bookkeeping of the heap                                   *)

\* the places of the heap list that hold an item that is not void
NonVoid(self) == {i \in DOMAIN self._heap : ~self._heap[i].void}

\* C19 (heap bookkeeping): after any sequence of push, peek and pop,
\* entry_count is the number of items in the heap list, void_count the
\* number of those that are void, the pair->entry map holds exactly the
\* items that are not void, each pair has at most one of them, and len()
\* is their number.
C19_Bookkeeping ==
    /\ future.entry_count = Len(future._heap)
    /\ future.void_count = Cardinality({i \in DOMAIN future._heap : future._heap[i].void})
    /\ DOMAIN future._map = {future._heap[i].key : i \in NonVoid(future)}
    /\ \A k \in DOMAIN future._map :
          /\ future._map[k] \in NonVoid(future)
          /\ future._heap[future._map[k]].key = k
    /\ \A i \in NonVoid(future), j \in NonVoid(future) :
          future._heap[i].key = future._heap[j].key => i = j
    /\ HeapLen(future) = Cardinality(NonVoid(future))

\* a pop out of a heap that is left with a void item and a live one
C19_Witness ==
    /\ hist.op = "pop"
    /\ future.void_count > 0
    /\ NonVoid(future) # {}

---------------------------------------------------------------------------
(* The heap with pushes of +inf: which voided items such a push left       *)

VoidTimes == {Q(1), Q(2), Inf}

\* the entries of a map pair -> time whose voided item the heap list holds
StillHeld(self, m) ==
    [k \in {x \in DOMAIN m : \E i \in DOMAIN self._heap :
                                 /\ self._heap[i].void
                                 /\ self._heap[i].key = x
                                 /\ self._heap[i].t = m[x]} |-> m[k]]

\* the record of a call:
\*   gone    for each pair whose live entry a push of +inf voided and which
\*           has not been pushed with a finite time since, the time of that
\*           entry, for as long as the heap list holds the voided item
\*   back    a pop returned the entry that gone recorded for its pair
\*   passed  the call took an item that gone recorded out of the heap list
NoVoidCall ==
    [op |-> "none", key |-> <<0, 0>>, t |-> NaN,
     pre |-> {}, post |-> {}, lenPre |-> 0, lenPost |-> 0,
     was |-> FALSE, is |-> FALSE,
     back |-> FALSE, passed |-> FALSE, gone |-> EmptyMap]

VoidCall(op, key, time, before, after) ==
    LET g == IF op # "push" THEN hist.gone
             ELSE IF IsFinite(time) THEN MapDel(hist.gone, key)
             ELSE IF HeapContains(before, key)
             THEN MapSet(hist.gone, key, before._heap[before._map[key]].t)
             ELSE hist.gone
    IN  [op |-> op, key |-> key, t |-> time,
         pre |-> Live(before), post |-> Live(after),
         lenPre |-> HeapLen(before), lenPost |-> HeapLen(after),
         was |-> HeapContains(before, key), is |-> HeapContains(after, key),
         back |-> op = "pop" /\ key \in DOMAIN hist.gone /\ hist.gone[key] = time,
         passed |-> DOMAIN StillHeld(after, g) # DOMAIN g,
         gone |-> StillHeld(after, g)]

InitVoid ==
    /\ t = Q(0)
    /\ contents = EmptyMap
    /\ modified = {}
    /\ future = EmptyHeap
    /\ vec_zero = Q(0)
    /\ views = EmptyMap
    /\ hist = NoVoidCall

\* future._push(item) for an item of pair (k1, k2) whose predicted time is time
DoPushVoid(k1, k2, time) ==
    LET key == CollisionHeapKey(k1, k2)
        item == [id |-> NewId(future), key |-> key, t |-> time, void |-> FALSE, pred |-> <<>>]
        after == HeapPushItem(future, item)
    IN  /\ k1 # k2
        /\ Len(after._heap) <= MaxHeap
        /\ future' = after
        /\ hist' = VoidCall("push", key, time, future, after)
        /\ UNCHANGED <<t, contents, modified, vec_zero, views>>

\* future.next()
DoPeekVoid ==
    LET r == HeapNext(future)
    IN  /\ future' = r[1]
        /\ hist' = VoidCall("peek", <<0, 0>>, r[2], future, r[1])
        /\ UNCHANGED <<t, contents, modified, vec_zero, views>>

\* future.pop(); on a heap with no live entry item.t raises AttributeError
DoPopVoid ==
    LET r == HeapPopItem(future)
    IN  /\ future' = r[1]
        /\ hist' = VoidCall(IF r[2] = None THEN "pop_error" ELSE "pop",
                            r[2].key, r[2].t, future, r[1])
        /\ UNCHANGED <<t, contents, modified, vec_zero, views>>

NextVoid ==
    \/ \E k1 \in Keys, k2 \in Keys, time \in VoidTimes : DoPushVoid(k1, k2, time)
    \/ DoPeekVoid
    \/ DoPopVoid

SpecVoid == InitVoid /\ [][NextVoid]_vars

\* C20 (superseding by a non-collision): a push of +inf for a pair voids
\* the pair's live entry and stores nothing: the pair is not contained
\* afterwards, len() is one less if it was contained and unchanged if not,
\* and no later peek or pop returns the old time for that pair.
C20_InfinitePush ==
    /\ (hist.op = "push" /\ hist.t = Inf) =>
          /\ ~hist.is
          /\ hist.post = {e \in hist.pre : e[1] # hist.key}
          /\ hist.lenPost = IF hist.was THEN hist.lenPre - 1 ELSE hist.lenPre
    /\ hist.op = "pop" => ~hist.back
    /\ hist.op = "peek" =>
          \/ hist.t = Inf
          \/ \E e \in hist.post : e[2] = hist.t /\ e[1] \notin DOMAIN hist.gone

\* a pop that returns an event after taking out of the heap list the item
\* that a push of +inf voided
C20_Witness ==
    /\ hist.op = "pop"
    /\ hist.passed

---------------------------------------------------------------------------
(* Three bodies, with writes through their views and with time travel      *)

\* the body added under each key
FrameBodies == <<Body(8, 0), Body(3, 2), Body(0, 4)>>

\* the state variables written: P changes vec_zero (apply_impulse), x
\* does not
FrameVars == {"x", "P"}

\* allow_time_travel is passed where it makes a difference: with a target
\* before t
NextFrame ==
    \/ \E key \in Keys : DoAdd(key, FrameBodies[key])
    \/ \E key \in Keys, var \in FrameVars, value \in WriteValues : DoViewWrite(key, var, value)
    \/ DoRecomputeFuture
    \/ \E target \in Targets : DoAdvanceTo(target, FALSE)
    \/ \E target \in Targets : QLt(target, t) /\ DoAdvanceTo(target, TRUE)

SpecFrame == InitTimeline /\ [][NextFrame]_vars

---------------------------------------------------------------------------
(* Claims about re-prediction                                              *)

\* the live entries of pair key in heap self
EntriesOf(self, key) == {e \in Live(self) : e[1] = key}

\* from world w0 to world w the live entry of every pair with both keys
\* outside mod is as it was
HeapFrame(w0, w, mod) ==
    \A k1 \in DOMAIN w0.contents, k2 \in DOMAIN w0.contents :
        (k1 < k2 /\ k1 \notin mod /\ k2 \notin mod) =>
            EntriesOf(w.future, <<k1, k2>>) = EntriesOf(w0.future, <<k1, k2>>)

\* from world w0 to world w the trajectory of every body but those of
\* keys is as it was
BodyFrame(w0, w, keys) ==
    \A k \in (DOMAIN w0.contents) \ keys :
        Trajectory(w.contents[k], w.z) = Trajectory(w0.contents[k], w0.z)

\* C21 (frame of re-prediction): recompute_future, and do_next_collision
\* for a popped pair (k1, k2), leave the live entry of every pair whose
\* keys are both outside the modified set as it was, and change no
\* trajectory but those of k1 and k2.  (The heap is compared where the
\* call stays within the predictions the model covers.)
C21_Frame ==
    /\ \A w \in recompute_future(World) :
          /\ ~w.cut => HeapFrame(World, w, modified)
          /\ BodyFrame(World, w, {})
    /\ Live(future) # {} =>
          LET key == HeapPopItem(future)[2].key
          IN  \A w \in do_next_collision(World) :
                 /\ ~w.cut => HeapFrame(World, w, modified \cup {key[1], key[2]})
                 /\ BodyFrame(World, w, {key[1], key[2]})

---------------------------------------------------------------------------
(* Claims about the order of time                                          *)

\* C22 (events are never in the past): in every state reached by add,
\* writes through views and advance_to, with or without allow_time_travel,
\* every live entry has a time >= t; so each event do_next_collision pops
\* is at or after the t it replaces, and the events an advance_to resolves
\* are before its target, which t is set to at the end.
C22_NeverPast ==
    /\ \A e \in LiveEntries : ~QLt(e.t, t)
    /\ (hist.op = "advance_to" /\ hist.err = "ok") => (~hist.back /\ ~hist.late)

\* advance_to has gone back to t = 0 after a collision (a body with arrays
\* of its own) and live entries are pending
C22_Witness ==
    /\ hist.op = "advance_to" /\ hist.err = "ok" /\ hist.allow
    /\ t = Q(0)
    /\ LiveEntries # {}
    /\ \E k \in DOMAIN contents : ~contents[k].a.alias

\* C23 (permitted time travel): advance_to(target, allow_time_travel=True)
\* with target < t raises nothing, resolves no collision and changes no
\* trajectory; it re-predicts the pairs of the keys pending in modified, at
\* the t it found, leaves modified empty and sets t to target.
C23_TimeTravel ==
    [][(hist'.op = "advance_to" /\ hist'.allow /\ QLt(hist'.target, t)) =>
          /\ hist'.err = "ok"
          /\ ~hist'.collided
          /\ DOMAIN contents' = DOMAIN contents
          /\ \A k \in DOMAIN contents :
                Trajectory(contents'[k], vec_zero') = Trajectory(contents[k], vec_zero)
          /\ modified' = {}
          /\ t' = hist'.target
          /\ \E w \in recompute_future(World) : Live(future') = Live(w.future)]_vars

\* advance_to has gone back with keys pending in modified, and live
\* entries are in the heap
C23_Witness ==
    /\ hist.op = "advance_to" /\ hist.err = "ok" /\ hist.allow
    /\ hist.travel
    /\ hist.was # {}
    /\ modified = {}
    /\ LiveEntries # {}

---------------------------------------------------------------------------
(* Claims about the shared zero array                                      *)

\* C24 (no aliasing side effects): after any sequence of apply_state
\* calls, also ones that supply P or F and leave v or a out, vec_zero is
\* still zero, a newly made default Ball has x = v = a = b = 0, and
\* apply_impulse with every delta left at its default returns the same
\* trajectory and leaves vec_zero alone.
C24_NoAliasing ==
    /\ vec_zero = Q(0)
    /\ Trajectory(DefaultBall, vec_zero) = <<Q(0), Q(0), Q(0), Q(1)>>
    /\ Val(DefaultBall.b, vec_zero) = Q(0)
    /\ \A tt \in BallTimes :
          LET r == apply_impulse(TheBall, tt, VecZero, VecZero, VecZero, VecZero, VecZero,
                                 vec_zero)
          IN  /\ Trajectory(r.ball, r.z) = Trajectory(TheBall, vec_zero)
              /\ r.z = vec_zero

---------------------------------------------------------------------------
(* Claims about the order of re-prediction                                 *)

\* the worlds of S that the model follows to the end all have the same
\* live entries and an empty modified set
SameOutcome(S) ==
    \A w1 \in S, w2 \in S :
        (~w1.cut /\ ~w2.cut) =>
            /\ Live(w1.future) = Live(w2.future)
            /\ w1.modified = {}

\* C25 (order independence of recompute_future): for the same bodies, t,
\* heap and modified set, the live (pair, time) entries and the (empty)
\* modified set that result are the same whatever order the keys are
\* taken from modified in and whatever order the unmodified keys are
\* iterated in; also for the call do_next_collision makes.
C25_OrderIndependent ==
    /\ SameOutcome(recompute_future(World))
    /\ Live(future) # {} => SameOutcome(do_next_collision(World))

\* recompute_future has run on three bodies with two keys in modified,
\* and the collision that is next has entries to supersede
C25_Witness ==
    /\ hist.op = "recompute_future"
    /\ Cardinality(hist.was) >= 2
    /\ Cardinality(DOMAIN contents) = 3
    /\ Live(future) # {}
    /\ \E w \in do_next_collision(World) : ~w.cut /\ w.future.void_count > 0

=============================================================================
